---- MODULE Spec2Model ----
\* A model of poki_scraper.py: the record extractor (extract_game_info), the
\* link discovery and batch loop of scrape_website, and main's aggregation.
EXTENDS Integers, Sequences, FiniteSets, TLC

\* ------------------------------------------------------------------------
\* Python values.  A string is the sequence of its '/'-separated pieces
\* ('https://poki.com/en' is <<"https:", "", "poki.com", "en">>), '' is the
\* empty sequence, and None is a reserved one-piece value.
\* ------------------------------------------------------------------------
EmptyStr == <<>>

None == <<"None">>

Truthy(s) == s # None /\ s # EmptyStr

\* python `a or b`
Or(a, b) == IF Truthy(a) THEN a ELSE b

\* s.startswith('http')
StartsWithHttp(s) == Len(s) > 0 /\ s[1] \in {"http:", "https:"}

\* 'dom' in url, for the three domains the program tests
DomainPieces(dom) ==
    CASE dom = "poki.com" -> {"poki.com", "game-cdn.poki.com"}
      [] dom = "gamepix.com" -> {"gamepix.com", "www.gamepix.com"}
      [] dom = "gamedistribution.com" ->
            {"gamedistribution.com", "img.gamedistribution.com",
             "html5.gamedistribution.com"}

InUrl(dom, url) == \E q \in 1..Len(url) : url[q] \in DomainPieces(dom)

\* urllib.parse.urljoin(base, ref) for an absolute base and a reference that
\* is empty, root-relative ('/a/b') or path-relative ('a/b')
urljoin(base, ref) ==
    IF ref = EmptyStr THEN base
    ELSE IF StartsWithHttp(ref) THEN ref
    ELSE IF ref[1] = "" THEN SubSeq(base, 1, 3) \o Tail(ref)
    ELSE IF Len(base) <= 3 THEN base \o ref
    ELSE SubSeq(base, 1, Len(base) - 1) \o ref

PokiBase == <<"https:", "", "poki.com">>

GamePixBase == <<"https:", "", "www.gamepix.com">>

GDBase == <<"https:", "", "gamedistribution.com">>

\* ------------------------------------------------------------------------
\* Detail pages.  A page is what BeautifulSoup reports of it: for every
\* selector the program uses, the first matching element (or none), and the
\* content of the __NEXT_DATA__ script.
\* ------------------------------------------------------------------------
MaxElems == 2

MaxAssets == 2

Absent == [present |-> FALSE, content |-> EmptyStr, text |-> EmptyStr, src |-> EmptyStr]

\* the forms an element matched by selector k can take: no attribute and no
\* text; a content attribute (meta elements, which are void and have no
\* text); text and a src attribute (every other element)
IsMeta(k) ==
    k \in {"meta[property=og:title]", "meta[name=title]",
           "meta[name=description]", "meta[property=og:description]",
           "meta[property=og:image]", "meta[name=thumbnail]",
           "meta[property=poki-game-id]"}

ElemForms(k) == IF IsMeta(k) THEN {"empty", "content"} ELSE {"empty", "body"}

MkElem(k, form) ==
    [present |-> TRUE,
     content |-> IF form = "content" THEN <<k, "content">> ELSE EmptyStr,
     text    |-> IF form = "body" THEN <<k, "text">> ELSE EmptyStr,
     src     |-> IF form = "body" THEN <<"", k, "src">> ELSE EmptyStr]

PokiNameSelectors ==
    <<"meta[property=og:title]", "meta[name=title]", "h1.game-name",
      "h1[class*=GameName]", ".game-title", "[class*=title]">>

GamePixNameSelectors ==
    <<"meta[property=og:title]", "meta[name=title]", "h1", ".game-title",
      "[class*=game-name]">>

GDNameSelectors ==
    <<"meta[property=og:title]", "meta[name=title]", "h1", "h2",
      "[class*=title]", "[class*=game-title]">>

PokiDescSelectors ==
    <<"meta[name=description]", "meta[property=og:description]",
      ".game-description", "[class*=Description]", ".description">>

GamePixDescSelectors ==
    <<"meta[name=description]", "meta[property=og:description]",
      ".game-description", "[class*=game-details]", "[class*=description]">>

GDDescSelectors ==
    <<"meta[name=description]", "meta[property=og:description]",
      "[class*=description]", "[class*=game-description]">>

PokiImgSelectors ==
    <<"meta[property=og:image]", "meta[name=thumbnail]", ".game-image img",
      "[class*=GameImage] img", ".thumbnail img">>

GamePixImgSelectors ==
    <<"meta[property=og:image]", "meta[name=thumbnail]", ".game-preview img",
      ".game-thumbnail img", "[class*=game-image] img">>

GDImgSelectors ==
    <<"meta[property=og:image]", "meta[name=thumbnail]",
      "[class*=game-image] img", "[class*=thumbnail] img",
      "img[src*=img.gamedistribution.com]">>

PokiIframeNameSelectors == <<"h1", "meta[property=og:title]", "title">>

Range(s) == {s[q] : q \in 1..Len(s)}

PokiKeys ==
    Range(PokiNameSelectors) \cup Range(PokiDescSelectors)
      \cup Range(PokiImgSelectors) \cup Range(PokiIframeNameSelectors)
      \cup {"iframe#game-element", "meta[property=poki-game-id]"}

GamePixKeys ==
    Range(GamePixNameSelectors) \cup Range(GamePixDescSelectors)
      \cup Range(GamePixImgSelectors) \cup {"iframe[src*=/embed/]"}

\* "re:game_id" stands for a match of the game_id regular expression in the
\* raw HTML text
GDKeys ==
    Range(GDNameSelectors) \cup Range(GDDescSelectors)
      \cup Range(GDImgSelectors) \cup {"re:game_id"}

AllKeys == PokiKeys \cup GamePixKeys \cup GDKeys

Hex32 == "0123456789abcdef0123456789abcdef"

\* The __NEXT_DATA__ script: what next_data_script.string holds and what
\* json.loads makes of it.  An asset is a JSON object with a width (0 when
\* the key is missing, as asset.get('width', 0) reads it) and maybe a name.
Widths == {0, 200, 800}

AssetFile(w) ==
    IF w = 0 THEN <<"a0.jpg">> ELSE IF w = 200 THEN <<"a200.jpg">> ELSE <<"a800.jpg">>

AssetValues == [width : Widths, has_name : BOOLEAN]

AssetLists == UNION {[1..k -> AssetValues] : k \in 0..MaxAssets}

NoGame(kind) ==
    [kind |-> kind, title |-> EmptyStr, description |-> EmptyStr,
     assets_kind |-> "list", assets |-> <<>>, objectID |-> EmptyStr]

\* pageProps.game: missing (the default {} is used), a falsy value that is
\* not an object (null), a truthy value that is not an object (a string),
\* or an object
GameValues ==
    {NoGame(k) : k \in {"missing", "falsy", "nonobject"}}
      \cup [kind : {"object"},
            title : {EmptyStr, <<"Title">>},
            description : {EmptyStr, <<"Desc">>},
            assets_kind : {"list"},
            assets : AssetLists,
            objectID : {EmptyStr, <<"gameid">>}]
      \cup [kind : {"object"},
            title : {EmptyStr, <<"Title">>},
            description : {EmptyStr, <<"Desc">>},
            assets_kind : {"noniterable"},
            assets : {<<>>},
            objectID : {EmptyStr, <<"gameid">>}]

\* the script: absent; present with no string (.string is None); text that
\* is not JSON; JSON that is not an object; a JSON object
NextDataValues ==
    {[kind |-> k, game |-> NoGame("missing")] :
        k \in {"absent", "nostring", "unparseable", "nondict"}}
      \cup [kind : {"dict"}, game : GameValues]

NoNextData == [kind |-> "absent", game |-> NoGame("missing")]

RECURSIVE KSubsets(_, _)
\* the subsets of S with at most k elements
KSubsets(S, k) ==
    IF k <= 0 \/ S = {} THEN {{}}
    ELSE LET x == CHOOSE y \in S : TRUE
             rest == S \ {x}
         IN  KSubsets(rest, k) \cup {T \cup {x} : T \in KSubsets(rest, k - 1)}

\* A DOM maps the selectors that match to the form of the first match.
Forms == {"empty", "content", "body"}

Doms(keys, k) ==
    UNION {{f \in [P -> Forms] : \A s \in P : f[s] \in ElemForms(s)} :
           P \in KSubsets(keys, k)}

EmptyDom == [s \in {} |-> "empty"]

\* soup.select_one(selector)
select_one(page, selector) ==
    IF selector \in DOMAIN page.dom
    THEN MkElem(selector, page.dom[selector])
    ELSE Absent

PokiDetailUrl == <<"https:", "", "poki.com", "en", "g", "subway-surfers">>

GamePixDetailUrl == <<"https:", "", "www.gamepix.com", "play", "moto-x3m">>

GDDetailUrl == <<"https:", "", "gamedistribution.com", "games", "moto-x3m">>

\* the detail pages of a site with at most MaxElems elements, an asset of
\* the embedded JSON counting as one; only Game Distribution pages carry
\* the script
SiteKeys(url) ==
    IF InUrl("poki.com", url) THEN PokiKeys
    ELSE IF InUrl("gamepix.com", url) THEN GamePixKeys ELSE GDKeys

SiteNextData(url) ==
    IF InUrl("poki.com", url) \/ InUrl("gamepix.com", url) THEN {NoNextData}
    ELSE {v \in NextDataValues : Len(v.game.assets) <= MaxElems}

\* ------------------------------------------------------------------------
\* extract_game_info
\* ------------------------------------------------------------------------
\* a fetched document: None (or '') when the fetch failed, else the page;
\* origin is the number of the link element the fetch was issued for
NoHtml == [is_none |-> TRUE, origin |-> 0, page |-> [dom |-> EmptyDom, next_data |-> NoNextData]]

Html(origin, page) == [is_none |-> FALSE, origin |-> origin, page |-> page]

\* Every Python object a list of the program holds is a record of one shape:
\* kind says whether it is a dict, None, or a link element (a Tag).
\* the dict extract_game_info returns
Record(name, description, image_url, game_url, game_api_url) ==
    [kind |-> "dict", name |-> name, description |-> description,
     image_url |-> image_url, game_url |-> game_url,
     game_api_url |-> game_api_url, href |-> EmptyStr, classes |-> {}]

\* the None it returns
NoRecord ==
    [kind |-> "None", name |-> None, description |-> None, image_url |-> None,
     game_url |-> None, game_api_url |-> None, href |-> EmptyStr, classes |-> {}]

\* an exception leaving extract_game_info
Raised ==
    [kind |-> "raise", name |-> None, description |-> None, image_url |-> None,
     game_url |-> None, game_api_url |-> None, href |-> EmptyStr, classes |-> {}]

\* what a strategy's block does: return a record, fall through to the code
\* after it, or raise inside its try
Return(r) == [status |-> "return", value |-> r]

Fall == [status |-> "fall", value |-> NoRecord]

Error == [status |-> "error", value |-> NoRecord]

\* elem.get('content', '') or elem.text.strip()
ContentOrText(elem) == Or(elem.content, elem.text)

\* elem.get('content', '') or elem.get('src', '')
ContentOrSrc(elem) == Or(elem.content, elem.src)

RECURSIVE FirstText(_, _, _)
\* for selector in selectors: elem = soup.select_one(selector); if elem:
\* value = content or text; if value: break        (value starts as acc)
FirstText(selectors, page, acc) ==
    IF selectors = <<>> THEN acc
    ELSE LET elem == select_one(page, Head(selectors))
         IN  IF ~elem.present THEN FirstText(Tail(selectors), page, acc)
             ELSE IF Truthy(ContentOrText(elem)) THEN ContentOrText(elem)
             ELSE FirstText(Tail(selectors), page, ContentOrText(elem))

RECURSIVE FirstImage(_, _, _, _)
\* the same loop for the image, which joins a relative URL with base
FirstImage(selectors, page, base, acc) ==
    IF selectors = <<>> THEN acc
    ELSE LET elem == select_one(page, Head(selectors))
         IN  IF ~elem.present THEN FirstImage(Tail(selectors), page, base, acc)
             ELSE IF Truthy(ContentOrSrc(elem))
                  THEN IF StartsWithHttp(ContentOrSrc(elem))
                       THEN ContentOrSrc(elem)
                       ELSE urljoin(base, ContentOrSrc(elem))
             ELSE FirstImage(Tail(selectors), page, base, ContentOrSrc(elem))

\* desc_elem.get('content', '') of an optional element, None without it
ContentOf(elem) == IF elem.present THEN elem.content ELSE None

\* the Poki block: the player iframe gives the record its game_api_url
PokiIframe(page, url) ==
    LET iframe == select_one(page, "iframe#game-element")
        name == FirstText(PokiIframeNameSelectors, page, None)
        description == ContentOf(select_one(page, "meta[property=og:description]"))
        image_url == ContentOf(select_one(page, "meta[property=og:image]"))
        game_api_url ==
            IF StartsWithHttp(iframe.src) THEN iframe.src
            ELSE urljoin(PokiBase, iframe.src)
    IN  IF iframe.present /\ Truthy(iframe.src) /\ Truthy(name)
        THEN Return(Record(name, Or(description, EmptyStr),
                           Or(image_url, EmptyStr), url, game_api_url))
        ELSE Fall

RECURSIVE ScanAssets(_, _, _)
\* the loop over assets: the URL of the widest asset so far, or the KeyError
\* of asset['name'] on a wider asset that has no name
ScanAssets(assets, image_url, max_width) ==
    IF assets = <<>> THEN [error |-> FALSE, image_url |-> image_url]
    ELSE LET asset == Head(assets)
         IN  IF asset.width > max_width
             THEN IF asset.has_name
                  THEN ScanAssets(Tail(assets),
                         <<"https:", "", "img.gamedistribution.com", AssetFile(asset.width)[1]>>,
                         asset.width)
                  ELSE [error |-> TRUE, image_url |-> image_url]
             ELSE ScanAssets(Tail(assets), image_url, max_width)

\* the Game Distribution block: the embedded JSON of __NEXT_DATA__
NextData(page, url) ==
    LET nd == page.next_data
        game_data == nd.game
        scan == ScanAssets(game_data.assets, EmptyStr, 0)
    IN  IF nd.kind = "absent" THEN Fall
        ELSE IF nd.kind \in {"nostring", "unparseable", "nondict"} THEN Error
        ELSE IF game_data.kind \in {"missing", "falsy"} THEN Fall
        ELSE IF game_data.kind = "nonobject" THEN Error
        ELSE IF game_data.assets_kind = "noniterable" \/ scan.error THEN Error
        ELSE IF Truthy(game_data.objectID)
             THEN Return(Record(game_data.title, game_data.description,
                                scan.image_url, url,
                                <<"https:", "", "html5.gamedistribution.com">>
                                    \o game_data.objectID \o <<"">>))
        ELSE Fall

\* the GamePix block
GamePixBlock(page, url) ==
    LET h1 == select_one(page, "h1")
        name == IF h1.present THEN h1.text ELSE None
        description == ContentOf(select_one(page, "meta[name=description]"))
        image_url == ContentOf(select_one(page, "meta[property=og:image]"))
        iframe == select_one(page, "iframe[src*=/embed/]")
        game_api_url == IF iframe.present THEN iframe.src ELSE None
    IN  IF Truthy(name) /\ (Truthy(description) \/ Truthy(image_url))
        THEN Return(Record(name, Or(description, EmptyStr),
                           Or(image_url, EmptyStr), url,
                           Or(game_api_url, EmptyStr)))
        ELSE Fall

\* a try block without its except clause: the error leaves the block
Uncaught(outcome) == outcome

\* try: <block> except Exception as e: print(...)
Caught(outcome) == IF outcome.status = "error" THEN Fall ELSE outcome

\* the selector chains of the fallback, by site
NameSelectors(is_poki, is_gamepix) ==
    IF is_poki THEN PokiNameSelectors
    ELSE IF is_gamepix THEN GamePixNameSelectors ELSE GDNameSelectors

DescSelectors(is_poki, is_gamepix) ==
    IF is_poki THEN PokiDescSelectors
    ELSE IF is_gamepix THEN GamePixDescSelectors ELSE GDDescSelectors

ImgSelectors(is_poki, is_gamepix) ==
    IF is_poki THEN PokiImgSelectors
    ELSE IF is_gamepix THEN GamePixImgSelectors ELSE GDImgSelectors

GenericName(page, url) ==
    FirstText(NameSelectors(InUrl("poki.com", url), InUrl("gamepix.com", url)),
              page, None)

GenericDescription(page, url) ==
    FirstText(DescSelectors(InUrl("poki.com", url), InUrl("gamepix.com", url)),
              page, None)

GenericImage(page, url) ==
    FirstImage(ImgSelectors(InUrl("poki.com", url), InUrl("gamepix.com", url)),
               page,
               IF InUrl("gamepix.com", url) THEN GamePixBase ELSE GDBase,
               None)

\* the positions i of a '/g/' in url
SlashG(url) == {q \in 2..(Len(url) - 1) : url[q] = "g"}

Max(S) == CHOOSE x \in S : \A y \in S : y <= x

\* url.split('/g/')[-1]
AfterSlashG(url) ==
    LET rest == SubSeq(url, Max(SlashG(url)) + 1, Len(url))
    IN  IF rest = <<"">> THEN EmptyStr ELSE rest

\* the game_api_url of the fallback
GenericApiUrl(page, url) ==
    IF InUrl("poki.com", url)
    THEN LET game_id ==
                 IF SlashG(url) # {} THEN AfterSlashG(url)
                 ELSE ContentOf(select_one(page, "meta[property=poki-game-id]"))
         IN  IF Truthy(game_id)
             THEN <<"https:", "", "game-cdn.poki.com">> \o game_id \o <<"index.html">>
             ELSE None
    ELSE IF ~InUrl("gamepix.com", url)
    THEN IF \E q \in 1..(Len(url) - 1) : url[q] = "games" /\ url[q + 1] = Hex32
         THEN <<"https:", "", "html5.gamedistribution.com", Hex32, "">>
         ELSE IF select_one(page, "re:game_id").present
         THEN <<"https:", "", "html5.gamedistribution.com", Hex32, "">>
         ELSE None
    ELSE IF select_one(page, "iframe[src*=/embed/]").present
         THEN select_one(page, "iframe[src*=/embed/]").src
         ELSE None

\* the final test with the name as the only requirement
QualifiesOnName(name, description, image_url) == Truthy(name)

\* the final test of the fallback
Qualifies(name, description, image_url) ==
    Truthy(name) /\ (Truthy(description) \/ Truthy(image_url))

\* the fallback: traditional HTML scraping
Generic(page, url) ==
    LET name == GenericName(page, url)
        description == GenericDescription(page, url)
        image_url == GenericImage(page, url)
        game_api_url == GenericApiUrl(page, url)
    IN  IF Qualifies(name, description, image_url)
        THEN Record(name, Or(description, EmptyStr), Or(image_url, EmptyStr),
                    url, Or(game_api_url, EmptyStr))
        ELSE NoRecord

\* the specialised blocks, in the order of the code; each runs for its site
Specialized(page, url) ==
    LET is_poki == InUrl("poki.com", url)
        is_gamepix == InUrl("gamepix.com", url)
        poki == IF is_poki THEN Caught(PokiIframe(page, url)) ELSE Fall
        gd == IF ~is_poki /\ ~is_gamepix THEN Caught(NextData(page, url)) ELSE Fall
        gamepix == IF is_gamepix THEN Caught(GamePixBlock(page, url)) ELSE Fall
    IN  IF poki.status # "fall" THEN poki
        ELSE IF gd.status # "fall" THEN gd
        ELSE gamepix

extract_game_info(html, url) ==
    IF html.is_none THEN NoRecord
    ELSE LET special == Specialized(html.page, url)
         IN  IF special.status = "return" THEN special.value
             ELSE IF special.status = "error" THEN Raised
             ELSE Generic(html.page, url)

\* ------------------------------------------------------------------------
\* Listing pages and link discovery
\* ------------------------------------------------------------------------
\* an <a> element of a listing page: its href and the classes of the
\* elements around it
Anchor(href, classes) ==
    [kind |-> "tag", name |-> None, description |-> None, image_url |-> None,
     game_url |-> None, game_api_url |-> None, href |-> href, classes |-> classes]

\* '/seg/' in href
HrefContains(href, seg) == \E k \in 2..(Len(href) - 1) : href[k] = seg

\* the classes with "game" in their name
GameClasses == {"game-card", "game-tile", "game-item", "game-wrapper"}

\* whether an anchor is matched by a selector of the discovery chains
Matches(a, selector) ==
    CASE selector = "a[href*=/g/]" -> HrefContains(a.href, "g")
      [] selector = "a[href*=/play/]" -> HrefContains(a.href, "play")
      [] selector = "a[href*=/games/]" -> HrefContains(a.href, "games")
      [] selector = ".game-tile a" -> "game-tile" \in a.classes
      [] selector = ".game-card a" -> "game-card" \in a.classes
      [] selector = "article.game-item a" -> "game-item" \in a.classes
      [] selector = "[class*=GameTile] a" -> "GameTile" \in a.classes
      [] selector = "[class*=game-wrapper] a" -> "game-wrapper" \in a.classes
      [] selector = "[class*=game] a" -> a.classes \cap GameClasses # {}

RECURSIVE select(_, _)
\* soup.select(selector): the matching anchors in document order
select(anchors, selector) ==
    IF anchors = <<>> THEN <<>>
    ELSE IF Matches(Head(anchors), selector)
         THEN <<Head(anchors)>> \o select(Tail(anchors), selector)
         ELSE select(Tail(anchors), selector)

\* every matching strategy's anchors, one strategy after the other
RECURSIVE MergeStrategies(_, _)
MergeStrategies(anchors, selectors) ==
    IF selectors = <<>> THEN <<>>
    ELSE select(anchors, Head(selectors)) \o MergeStrategies(anchors, Tail(selectors))

RECURSIVE FirstStrategy(_, _)
\* select(s1) or select(s2) or ... : the first non-empty list, else the last
FirstStrategy(anchors, selectors) ==
    IF Len(selectors) = 1 THEN select(anchors, Head(selectors))
    ELSE IF select(anchors, Head(selectors)) # <<>>
         THEN select(anchors, Head(selectors))
         ELSE FirstStrategy(anchors, Tail(selectors))

\* the discovery chain of a site on the rendered path
LinkSelectors(site_url) ==
    IF InUrl("poki.com", site_url)
    THEN <<"a[href*=/g/]", ".game-tile a", ".game-card a", "article.game-item a",
           "[class*=GameTile] a", "[class*=game-wrapper] a">>
    ELSE IF InUrl("gamepix.com", site_url)
    THEN <<"a[href*=/play/]", ".game-card a", "[class*=game] a">>
    ELSE <<"a[href*=/games/]", ".game-card a", "[class*=game] a">>

\* the link elements scrape_website takes from a rendered listing
discover(site_url, anchors) == FirstStrategy(anchors, LinkSelectors(site_url))

RECURSIVE PokiLinks(_)
\* the links of the Poki homepage, made absolute
PokiLinks(anchors) ==
    IF anchors = <<>> THEN <<>>
    ELSE LET href == Head(anchors).href
         IN  IF Matches(Head(anchors), "a[href*=/g/]") /\ Truthy(href) /\ HrefContains(href, "g")
             THEN <<IF StartsWithHttp(href) THEN href ELSE urljoin(PokiBase, href)>>
                    \o PokiLinks(Tail(anchors))
             ELSE PokiLinks(Tail(anchors))

\* ------------------------------------------------------------------------
\* The web the crawl runs against
\* ------------------------------------------------------------------------
MaxLinks == 11

ManyLinks == 23

MaxCardLinks == 4

MaxRelativeLinks == 1

MaxEmptyPos == 2

MaxDownPos == 1

MaxRich == 2

chunk_size == 10

max_scroll_attempts == 5

PokiSeed == <<"https:", "", "poki.com", "en">>

GDSeed == <<"https:", "", "gamedistribution.com", "games", "">>

GamePixSeed == <<"https:", "", "www.gamepix.com", "">>

websites == <<PokiSeed, GDSeed, GamePixSeed>>

Slugs ==
    <<"g01", "g02", "g03", "g04", "g05", "g06", "g07", "g08", "g09", "g10",
      "g11", "g12", "g13", "g14", "g15", "g16", "g17", "g18", "g19", "g20",
      "g21", "g22", "g23", "g24", "g25", "g26", "g27", "g28", "g29", "g30">>

\* A listing shows n links.  In the "primary" layout (up to MaxLinks links,
\* or ManyLinks of them) every href holds the path segment the site's first
\* selector looks for; in the "card" layout (up to MaxCardLinks links) the
\* links sit in .game-card elements, their hrefs hold no such segment, and
\* link number `empty` (if any) has an empty href; the "relative" layout is
\* the card layout with hrefs relative to the listing's path ('g01') and
\* none empty.  The detail page of link number `down` (if any) cannot be
\* fetched.
Webs ==
    {w \in [n : (0..MaxLinks) \cup {ManyLinks}, layout : {"primary", "card", "relative"},
            empty : 0..MaxEmptyPos, down : 0..MaxDownPos] :
        /\ w.empty <= w.n
        /\ w.down <= w.n
        /\ w.layout \in {"primary", "relative"} => w.empty = 0
        /\ w.layout = "card" => w.n <= MaxCardLinks
        /\ w.layout = "relative" => (w.n \in 1..MaxRelativeLinks /\ w.down = 0)}

PrimaryHref(site_url, k) ==
    IF InUrl("poki.com", site_url) THEN <<"", "en", "g", Slugs[k]>>
    ELSE IF InUrl("gamepix.com", site_url) THEN <<"", "play", Slugs[k]>>
    ELSE <<"", "games", Slugs[k]>>

Listing(site_url, w) ==
    [k \in 1..w.n |->
        IF w.layout = "primary" THEN Anchor(PrimaryHref(site_url, k), {})
        ELSE IF w.layout = "relative" THEN Anchor(<<Slugs[k]>>, {"game-card"})
        ELSE Anchor(IF k = w.empty THEN EmptyStr ELSE <<"", "game", Slugs[k]>>,
                    {"game-card"})]

\* detail pages: the first MaxRich links of a listing lead to a page with a
\* title and a description, the others to a page with neither
RichPage ==
    [dom |-> [s \in {"meta[property=og:title]", "meta[name=description]"} |-> "content"],
     next_data |-> NoNextData]

PlainPage == [dom |-> EmptyDom, next_data |-> NoNextData]

DetailPage(k) == IF k <= MaxRich THEN RichPage ELSE PlainPage

\* ------------------------------------------------------------------------
\* Batches
\* ------------------------------------------------------------------------
Min(x, y) == IF x <= y THEN x ELSE y

\* lst[i:] , a slice with no upper end
SliceToEnd(lst, q) == SubSeq(lst, q + 1, Len(lst))

\* lst[i:i + 10]
Slice(lst, q) == SubSeq(lst, q + 1, Min(q + chunk_size, Len(lst)))

\* a loop whose end is the length of the list at every test
LenNow(stop, lst) == Len(lst)

\* for i in range(0, len(lst), 10): the end is the length at loop entry
RangeEnd(stop, lst) == stop

\* a fetch_page coroutine: the URL it gets and, for the record, the number
\* of the link element it was created for
Task(fetch_url, origin) == [url |-> fetch_url, origin |-> origin]

RECURSIVE BatchTasks(_, _, _)
\* process_game_batch: one task per element with a non-empty href
BatchTasks(elems, first, base_url) ==
    IF elems = <<>> THEN <<>>
    ELSE LET game_url == Head(elems).href
             rest == BatchTasks(Tail(elems), first + 1, base_url)
         IN  IF ~Truthy(game_url) THEN rest
             ELSE <<Task(IF StartsWithHttp(game_url) THEN game_url
                         ELSE urljoin(base_url, game_url), first)>> \o rest

\* the tasks of a Poki chunk: one per link
ChunkTasks(links, first) == [j \in 1..Len(links) |-> Task(links[j], first + j - 1)]

\* the link elements a batch's tasks were created for, in task order
Origins(tsks) == [t \in 1..Len(tsks) |-> tsks[t].origin]

\* the canonical base scrape_website joins a relative href with
CanonicalBase(site_url) ==
    IF InUrl("poki.com", site_url) THEN PokiBase
    ELSE IF InUrl("gamepix.com", site_url) THEN GamePixBase ELSE GDBase

\* zip(responses, batch): the pairs, as many as the shorter of the two
Zip(resps, elems) == [j \in 1..Min(Len(resps), Len(elems)) |-> <<resps[j], elems[j]>>]

\* the pairs of zip(responses, batch) that are submitted to the executor:
\* a response was received and the element has an href
Submitted(pairs) ==
    {j \in 1..Len(pairs) : ~pairs[j][1].is_none /\ Truthy(pairs[j][2].href)}

\* the URL passed to extract_game_info for a link element
GameUrl(elem, site_url) ==
    IF StartsWithHttp(elem.href) THEN elem.href
    ELSE urljoin(CanonicalBase(site_url), elem.href)

RECURSIVE SeqOfSet(_)
\* the elements of a set of numbers in increasing order
SeqOfSet(S) ==
    IF S = {} THEN <<>>
    ELSE LET x == CHOOSE y \in S : \A z \in S : y <= z
         IN  <<x>> \o SeqOfSet(S \ {x})

\* the results of the submitted calls, in submission order
BatchResults(pairs, site_url) ==
    LET js == SeqOfSet(Submitted(pairs))
    IN  [k \in 1..Len(js) |->
            extract_game_info(pairs[js[k]][1], GameUrl(pairs[js[k]][2], site_url))]

\* the results of a Poki chunk: extract_game_info(html, link) for every html
PokiResults(pairs) ==
    LET js == SeqOfSet({j \in 1..Len(pairs) : ~pairs[j][1].is_none})
    IN  [k \in 1..Len(js) |-> extract_game_info(pairs[js[k]][1], pairs[js[k]][2])]

RECURSIVE Keep(_, _)
\* the elements of lst of a kind other than `kind`, in order
Keep(lst, kind) ==
    IF lst = <<>> THEN <<>>
    ELSE IF Head(lst).kind = kind THEN Keep(Tail(lst), kind)
    ELSE <<Head(lst)>> \o Keep(Tail(lst), kind)

\* [r for r in results if r]
TruthyResults(results) == Keep(results, "None")

\* [g for g in games if g is not None]
FilterNone(lst) == Keep(lst, "None")

RECURSIVE Rows(_)
\* the rows save_to_csv writes: one per dict with a name
Rows(lst) ==
    IF lst = <<>> THEN <<>>
    ELSE IF Head(lst).kind = "dict" THEN <<Head(lst)>> \o Rows(Tail(lst))
    ELSE Rows(Tail(lst))

\* the orders in which the results of a batch can be appended
Orders(lst) ==
    {[k \in 1..Len(lst) |-> lst[p[k]]] : p \in Permutations(1..Len(lst))}

\* ------------------------------------------------------------------------
\* State
\* ------------------------------------------------------------------------
VARIABLES
    detail_html,    \* extract_game_info's html argument
    detail_url,     \* its url argument
    game_info,      \* what it returned
    extract_pc,     \* "call" before the call, "returned" after it
    web,            \* the listings and detail pages of the sites
    main_pc,        \* main: "loop", "done", or "exited" on SystemExit
    site_idx,       \* the index of main's loop over websites
    all_games,      \* main's all_games
    save_called,    \* whether save_to_csv was called
    csv_rows,       \* the rows it wrote
    sw_pc,          \* the position of the running scrape_website call
    website,        \* its url argument, main's website
    games,          \* its games list
    game_links,     \* its game_links list (Poki)
    i,              \* the index of its chunk or batch loop
    range_stop,     \* the end of range(0, len(...), 10), fixed at loop entry
    chunk,          \* the current chunk (Poki)
    batch,          \* the current batch
    tasks,          \* the fetch_page tasks of the current gather
    pending,        \* the tasks not completed yet
    responses,      \* the results of the gather, by task position
    driver,         \* the browser session: "none", "open" or "quit"
    errored,        \* whether the try block was left by an exception
    scroll_attempts,
    page_source,    \* the anchors of the rendered listing
    calls,          \* the extract_game_info calls of the last batch
    batch_log       \* the batches of the running call, one entry each

extract_vars == <<detail_html, detail_url, game_info, extract_pc>>

main_vars == <<main_pc, site_idx, all_games, save_called, csv_rows>>

loop_vars == <<i, range_stop, chunk, batch, tasks, pending, responses, calls, batch_log>>

sw_vars == <<sw_pc, website, games, game_links, driver, errored, scroll_attempts, page_source>>

vars == <<extract_vars, web, main_vars, sw_vars, loop_vars>>

\* no call of extract_game_info is being examined on its own
ExtractIdle ==
    /\ detail_html = NoHtml
    /\ detail_url = PokiDetailUrl
    /\ game_info = NoRecord
    /\ extract_pc = "idle"

\* the locals of scrape_website before a call
LocalsFresh ==
    /\ games = <<>>
    /\ game_links = <<>>
    /\ i = 0
    /\ range_stop = 0
    /\ chunk = <<>>
    /\ batch = <<>>
    /\ tasks = <<>>
    /\ pending = {}
    /\ responses = <<>>
    /\ driver = "none"
    /\ errored = FALSE
    /\ scroll_attempts = 0
    /\ page_source = <<>>
    /\ calls = {}
    /\ batch_log = <<>>

MainFresh ==
    /\ main_pc = "loop"
    /\ site_idx = 1
    /\ all_games = <<>>
    /\ save_called = FALSE
    /\ csv_rows = <<>>

\* ------------------------------------------------------------------------
\* One call of extract_game_info on a detail page of one of the three sites
\* ------------------------------------------------------------------------
DetailUrls == {PokiDetailUrl, GamePixDetailUrl, GDDetailUrl}

InitExtract ==
    /\ \E u \in DetailUrls, nd \in NextDataValues :
          /\ nd \in SiteNextData(u)
          /\ \E d \in Doms(SiteKeys(u), MaxElems - Len(nd.game.assets)) :
                \E none \in BOOLEAN :
                  /\ none => (d = EmptyDom /\ nd = NoNextData /\ u = PokiDetailUrl)
                  /\ detail_html = IF none THEN NoHtml
                                   ELSE Html(1, [dom |-> d, next_data |-> nd])
          /\ detail_url = u
    /\ game_info = NoRecord
    /\ extract_pc = "call"
    /\ web = [n |-> 0, layout |-> "primary", empty |-> 0, down |-> 0]
    /\ MainFresh
    /\ sw_pc = "idle"
    /\ website = PokiSeed
    /\ LocalsFresh

ExtractCall ==
    /\ extract_pc = "call"
    /\ game_info' = extract_game_info(detail_html, detail_url)
    /\ extract_pc' = "returned"
    /\ UNCHANGED <<detail_html, detail_url, web, main_vars, sw_vars, loop_vars>>

NextExtract == ExtractCall

SpecExtract == InitExtract /\ [][NextExtract]_vars

\* ------------------------------------------------------------------------
\* main and scrape_website
\* ------------------------------------------------------------------------
InitCrawl ==
    /\ ExtractIdle
    /\ web \in Webs
    /\ MainFresh
    /\ sw_pc = "idle"
    /\ website = PokiSeed
    /\ LocalsFresh

\* the locals of a call are dropped when it ends
LocalsReset ==
    /\ games' = <<>>
    /\ game_links' = <<>>
    /\ i' = 0
    /\ range_stop' = 0
    /\ chunk' = <<>>
    /\ batch' = <<>>
    /\ tasks' = <<>>
    /\ pending' = {}
    /\ responses' = <<>>
    /\ driver' = "none"
    /\ errored' = FALSE
    /\ scroll_attempts' = 0
    /\ page_source' = <<>>
    /\ calls' = {}
    /\ batch_log' = <<>>

\* fetch_page on a detail URL: None when the page is down, else its HTML
FetchResult(task) ==
    IF task.origin = web.down THEN NoHtml
    ELSE Html(task.origin, DetailPage(task.origin))

\* the number of fetch_page coroutines started and not finished
Outstanding == Cardinality(pending)

\* the number of link elements in a batch
LinkCount(elems) == Cardinality({j \in 1..Len(elems) : elems[j].kind = "tag"})

\* main: games = await scrape_website(website)
CallScrape ==
    /\ main_pc = "loop" /\ sw_pc = "idle"
    /\ site_idx <= Len(websites)
    /\ website' = websites[site_idx]
    /\ sw_pc' = "start"
    /\ UNCHANGED <<extract_vars, web, main_vars, games, game_links, driver,
                   errored, scroll_attempts, page_source, loop_vars>>

\* html = await fetch_page(session, url) returned the listing
ListingFetched ==
    /\ sw_pc = "start"
    /\ IF InUrl("poki.com", website)
       THEN /\ game_links' = PokiLinks(Listing(website, web))
            /\ range_stop' = Len(game_links')
            /\ sw_pc' = IF Len(game_links') > 0 THEN "chunk" ELSE "return"
       ELSE /\ sw_pc' = "setup_driver"
            /\ UNCHANGED <<game_links, range_stop>>
    /\ UNCHANGED <<extract_vars, web, main_vars, website, games, driver, errored,
                   scroll_attempts, page_source, i, chunk, batch, tasks,
                   pending, responses, calls, batch_log>>

\* it returned None: return []
ListingFailed ==
    /\ sw_pc = "start"
    /\ sw_pc' = "return"
    /\ UNCHANGED <<extract_vars, web, main_vars, website, games, game_links,
                   driver, errored, scroll_attempts, page_source, loop_vars>>

\* Poki: chunk = game_links[i:i + chunk_size] and one fetch per link
ChunkStart ==
    /\ sw_pc = "chunk"
    /\ chunk' = Slice(game_links, i)
    /\ tasks' = ChunkTasks(chunk', i + 1)
    /\ pending' = 1..Len(tasks')
    /\ responses' = [j \in 1..Len(tasks') |-> NoHtml]
    /\ batch_log' = Append(batch_log, [links |-> Len(chunk'), fetches |-> Len(tasks'),
                                     origins |-> Origins(tasks')])
    /\ calls' = {}
    /\ sw_pc' = "gather"
    /\ UNCHANGED <<extract_vars, web, main_vars, website, games, game_links,
                   driver, errored, scroll_attempts, page_source, i,
                   range_stop, batch>>

\* one of the concurrent fetches completes; gather keeps its result at the
\* position of its task
FetchDone ==
    /\ sw_pc = "gather"
    /\ \E t \in pending :
          /\ responses' = [responses EXCEPT ![t] = FetchResult(tasks[t])]
          /\ pending' = pending \ {t}
    /\ UNCHANGED <<extract_vars, web, main_vars, sw_vars, i, range_stop, chunk,
                   batch, tasks, calls, batch_log>>

\* Poki: for html, link in zip(chunk_results, chunk): extract and append
ChunkExtract ==
    /\ sw_pc = "gather" /\ pending = {}
    /\ InUrl("poki.com", website)
    /\ LET pairs == Zip(responses, chunk)
       IN  /\ games' = games \o TruthyResults(PokiResults(pairs))
           /\ calls' = {[origin |-> pairs[j][1].origin, link |-> i + j] :
                          j \in {k \in 1..Len(pairs) : ~pairs[k][1].is_none}}
    /\ i' = i + chunk_size
    /\ sw_pc' = IF i' < RangeEnd(range_stop, game_links) THEN "chunk" ELSE "return"
    /\ UNCHANGED <<extract_vars, web, main_vars, website, game_links, driver,
                   errored, scroll_attempts, page_source, range_stop, chunk,
                   batch, tasks, pending, responses, batch_log>>

\* Poki: parsing a fetched page raises; nothing in scrape_website catches it
ChunkRaises ==
    /\ sw_pc = "gather" /\ pending = {}
    /\ InUrl("poki.com", website)
    /\ \E j \in 1..Len(responses) : ~responses[j].is_none
    /\ sw_pc' = "raise"
    /\ UNCHANGED <<extract_vars, web, main_vars, website, games, game_links,
                   driver, errored, scroll_attempts, page_source, loop_vars>>

\* driver = setup_driver()
SetupDriverOk ==
    /\ sw_pc = "setup_driver"
    /\ driver' = "open"
    /\ sw_pc' = "navigate"
    /\ UNCHANGED <<extract_vars, web, main_vars, website, games, game_links,
                   errored, scroll_attempts, page_source, loop_vars>>

\* uc.Chrome raises: setup_driver calls sys.exit(1); SystemExit is not an
\* Exception, so it passes every except clause of scrape_website and main
SetupDriverFails ==
    /\ sw_pc = "setup_driver"
    /\ sw_pc' = "exit"
    /\ main_pc' = "exited"
    /\ UNCHANGED <<extract_vars, web, site_idx, all_games, save_called, csv_rows,
                   website, games, game_links, driver, errored,
                   scroll_attempts, page_source, loop_vars>>

\* driver.get(url) and the first height
NavigateOk ==
    /\ sw_pc = "navigate"
    /\ scroll_attempts' = 0
    /\ sw_pc' = "scroll"
    /\ UNCHANGED <<extract_vars, web, main_vars, website, games, game_links,
                   driver, errored, page_source, loop_vars>>

\* an exception inside the try block: except prints it
TryRaisesKeeping ==
    /\ errored' = TRUE
    /\ sw_pc' = "finally"
    /\ UNCHANGED <<extract_vars, web, main_vars, website, games, game_links,
                   driver, page_source, loop_vars>>

TryRaises == TryRaisesKeeping /\ UNCHANGED scroll_attempts

NavigateRaises == sw_pc = "navigate" /\ TryRaises

\* one pass of the scroll loop that found the page taller
ScrollMore ==
    /\ sw_pc = "scroll"
    /\ scroll_attempts < max_scroll_attempts
    /\ scroll_attempts' = scroll_attempts + 1
    /\ UNCHANGED <<extract_vars, web, main_vars, sw_pc, website, games,
                   game_links, driver, errored, page_source, loop_vars>>

\* the loop ends, by its break or at max_scroll_attempts; page_source is
\* read (scroll_attempts is not read again and is dropped here)
ScrollEnd ==
    /\ sw_pc = "scroll"
    /\ page_source' = Listing(website, web)
    /\ scroll_attempts' = 0
    /\ sw_pc' = "discover"
    /\ UNCHANGED <<extract_vars, web, main_vars, website, games, game_links,
                   driver, errored, loop_vars>>

ScrollRaises == sw_pc = "scroll" /\ scroll_attempts' = 0 /\ TryRaisesKeeping

\* games = select(...) or select(...) or ...  (page_source and soup are not
\* read again and are dropped here)
Discover ==
    /\ sw_pc = "discover"
    /\ games' = discover(website, page_source)
    /\ page_source' = <<>>
    /\ range_stop' = Len(games')
    /\ i' = 0
    /\ sw_pc' = IF Len(games') > 0 THEN "batch" ELSE "finally"
    /\ UNCHANGED <<extract_vars, web, main_vars, website, game_links, driver,
                   errored, scroll_attempts, chunk, batch, tasks,
                   pending, responses, calls, batch_log>>

\* batch = games[i:i + 10]; responses = await process_game_batch(...)
BatchStart ==
    /\ sw_pc = "batch"
    /\ batch' = Slice(games, i)
    /\ tasks' = BatchTasks(batch', i + 1, website)
    /\ pending' = 1..Len(tasks')
    /\ responses' = [j \in 1..Len(tasks') |-> NoHtml]
    /\ batch_log' = Append(batch_log, [links |-> LinkCount(batch'), fetches |-> Len(tasks'),
                                     origins |-> Origins(tasks')])
    /\ calls' = {}
    /\ sw_pc' = "gather"
    /\ UNCHANGED <<extract_vars, web, main_vars, website, games, game_links,
                   driver, errored, scroll_attempts, page_source, i,
                   range_stop, chunk>>

\* the executor block: one extract_game_info call per pair of
\* zip(responses, batch) with a response and an href; the results are
\* appended to games in the order the calls complete
BatchExtract ==
    /\ sw_pc = "gather" /\ pending = {}
    /\ ~InUrl("poki.com", website)
    /\ LET pairs == Zip(responses, batch)
       IN  /\ \E order \in Orders(TruthyResults(BatchResults(pairs, website))) :
                 games' = games \o order
           /\ calls' = {[origin |-> pairs[j][1].origin, link |-> i + j] :
                          j \in Submitted(pairs)}
    /\ i' = i + chunk_size
    /\ sw_pc' = IF i' < RangeEnd(range_stop, games') THEN "batch" ELSE "finally"
    /\ UNCHANGED <<extract_vars, web, main_vars, website, game_links, driver,
                   errored, scroll_attempts, page_source, range_stop, chunk,
                   batch, tasks, pending, responses, batch_log>>

\* a call of the batch raises (the parser, on a fetched page)
BatchRaises ==
    /\ sw_pc = "gather" /\ pending = {}
    /\ ~InUrl("poki.com", website)
    /\ Submitted(Zip(responses, batch)) # {}
    /\ TryRaises

\* what has become of the session when the try statement is left
AfterQuitInTry(err) == IF err THEN "open" ELSE "quit"

\* finally: driver.quit()
AfterFinally(err) == "quit"

Finally ==
    /\ sw_pc = "finally"
    /\ driver' = AfterFinally(errored)
    /\ sw_pc' = "return"
    /\ UNCHANGED <<extract_vars, web, main_vars, website, games, game_links,
                   errored, scroll_attempts, page_source, loop_vars>>

\* main: if games: all_games.extend(g for g in games if g is not None)
MainReceive ==
    /\ main_pc = "loop" /\ sw_pc = "return"
    /\ all_games' = IF games # <<>> THEN all_games \o FilterNone(games) ELSE all_games
    /\ site_idx' = site_idx + 1
    /\ sw_pc' = "idle"
    /\ LocalsReset
    /\ UNCHANGED <<extract_vars, web, main_pc, save_called, csv_rows, website>>

\* main: except Exception: continue
MainCatch ==
    /\ main_pc = "loop" /\ sw_pc = "raise"
    /\ site_idx' = site_idx + 1
    /\ sw_pc' = "idle"
    /\ LocalsReset
    /\ UNCHANGED <<extract_vars, web, main_pc, all_games, save_called, csv_rows, website>>

\* main after the loop: if all_games: save_to_csv(all_games, filename)
MainFinish ==
    /\ main_pc = "loop" /\ sw_pc = "idle"
    /\ site_idx > Len(websites)
    /\ IF all_games # <<>>
       THEN save_called' = TRUE /\ csv_rows' = Rows(all_games)
       ELSE UNCHANGED <<save_called, csv_rows>>
    /\ main_pc' = "done"
    /\ UNCHANGED <<extract_vars, web, site_idx, all_games, sw_vars, loop_vars>>

Next ==
    \/ CallScrape \/ ListingFetched \/ ListingFailed
    \/ ChunkStart \/ FetchDone \/ ChunkExtract \/ ChunkRaises
    \/ SetupDriverOk \/ SetupDriverFails
    \/ NavigateOk \/ NavigateRaises \/ ScrollMore \/ ScrollEnd \/ ScrollRaises
    \/ Discover \/ BatchStart \/ BatchExtract \/ BatchRaises \/ Finally
    \/ MainReceive \/ MainCatch \/ MainFinish

Spec == InitCrawl /\ [][Next]_vars

\* ------------------------------------------------------------------------
\* Link discovery on any small rendered listing
\* ------------------------------------------------------------------------
MaxAnchors == 3

\* the anchors of a listing: an empty href, an href with the segment of the
\* first selector, an href without it; no class around it, a .game-card, a
\* .game-tile
AnchorValues ==
    {Anchor(h, c) :
        h \in {EmptyStr, <<"", "games", "g01">>, <<"", "play", "g01">>, <<"", "game", "g02">>},
        c \in {{}, {"game-card"}, {"game-tile"}}}

InitDiscover ==
    /\ ExtractIdle
    /\ web = [n |-> 0, layout |-> "primary", empty |-> 0, down |-> 0]
    /\ main_pc = "loop"
    /\ site_idx \in {2, 3}
    /\ website = websites[site_idx]
    /\ all_games = <<>>
    /\ save_called = FALSE
    /\ csv_rows = <<>>
    /\ sw_pc = "discover"
    /\ \E len \in 0..MaxAnchors : page_source \in [1..len -> AnchorValues]
    /\ games = <<>>
    /\ game_links = <<>>
    /\ i = 0
    /\ range_stop = 0
    /\ chunk = <<>>
    /\ batch = <<>>
    /\ tasks = <<>>
    /\ pending = {}
    /\ responses = <<>>
    /\ driver = "open"
    /\ errored = FALSE
    /\ scroll_attempts = 0
    /\ calls = {}
    /\ batch_log = <<>>

NextDiscover == Discover

SpecDiscover == InitDiscover /\ [][NextDiscover]_vars

\* ------------------------------------------------------------------------
\* Properties of the crawl (under Spec) and of discovery (under SpecDiscover)
\* ------------------------------------------------------------------------
\* C2: when the browser session of one site cannot be started, main still
\* goes through the remaining seed sites and hands the records collected so
\* far to save_to_csv: whenever main has ended with records collected, every
\* seed site was visited and save_to_csv was called.
C2_DriverFailureIsLocal ==
    (main_pc # "loop" /\ all_games # <<>>) =>
        (site_idx > Len(websites) /\ save_called)

\* C3: in every batch of both paths, each extract_game_info call receives
\* the HTML fetched for the link element whose URL it is given.
C3_HtmlOfSameLink == \A c \in calls : c.origin = c.link

\* C4: all_games holds only game records.
C4_OnlyRecords == \A k \in 1..Len(all_games) : all_games[k].kind = "dict"

\* the loop over the n = range_stop links ran to its end
LoopCompleted == sw_pc \in {"finally", "return"} /\ ~errored

\* C5: the detail fetches are issued in ceil(n/10) consecutive batches of
\* at most 10 links each, and never more than 10 are outstanding.
C5_Batches ==
    /\ Outstanding <= chunk_size
    /\ \A b \in 1..Len(batch_log) :
          /\ batch_log[b].links = Min(chunk_size, range_stop - chunk_size * (b - 1))
          /\ batch_log[b].links >= 1
          /\ batch_log[b].fetches <= batch_log[b].links
    /\ LoopCompleted => Len(batch_log) = (range_stop + chunk_size - 1) \div chunk_size

\* C5's case: 23 links of a rendered site went out as batches of 10, 10 and 3
C5_Witness ==
    /\ LoopCompleted
    /\ ~InUrl("poki.com", website)
    /\ range_stop = 23
    /\ Len(batch_log) = 3
    /\ batch_log[1].fetches = 10 /\ batch_log[2].fetches = 10 /\ batch_log[3].fetches = 3

\* the extraction of the current batch is over
Extracted == sw_pc \in {"chunk", "batch", "finally", "return"} /\ tasks # <<>> /\ ~errored

\* C6: when the fetch of one link of a batch fails, the HTML of every other
\* link of the batch whose fetch succeeded is still passed to
\* extract_game_info.
C6_OthersExtracted ==
    (Extracted /\ \E t \in 1..Len(tasks) : responses[t].is_none) =>
        \A t \in 1..Len(tasks) :
            ~responses[t].is_none => \E c \in calls : c.origin = tasks[t].origin

\* C7: once a scrape_website call has returned or raised, no browser session
\* it started is open.
C7_SessionClosed ==
    sw_pc \in {"idle", "start", "return", "raise", "exit"} => driver # "open"

\* C7's case: the call returns after an exception in its try block, with the
\* session it had started closed
C7_Witness == sw_pc = "return" /\ errored /\ driver = "quit"

\* the strategies of the chain that match something in page_source
Hits == {k \in 1..Len(LinkSelectors(website)) :
            select(page_source, LinkSelectors(website)[k]) # <<>>}

\* C9: discovery returns exactly the matches of the first strategy of the
\* chain that matches anything, and nothing when none does.
C9_FirstStrategyOnly ==
    [][(sw_pc = "discover" /\ sw_pc' # "discover") =>
          games' = IF Hits = {} THEN <<>>
                   ELSE select(page_source, LinkSelectors(website)[CHOOSE k \in Hits : \A h \in Hits : k <= h])]_vars

\* C9's case: only the third strategy matched, and its links were returned
C9_Witness ==
    /\ sw_pc = "batch" /\ i = 0 /\ games # <<>>
    /\ \A k \in 1..Len(games) :
          /\ ~Matches(games[k], LinkSelectors(website)[1])
          /\ ~Matches(games[k], LinkSelectors(website)[2])
          /\ Matches(games[k], LinkSelectors(website)[3])

\* the URLs process_game_batch fetched for the current batch
FetchedUrls == {tasks[t].url : t \in 1..Len(tasks)}

\* C11: on the rendered path the game_url of every record a batch produces
\* is a URL that was fetched for that batch: joining a relative href with
\* the seed listing URL (process_game_batch) and with the site's canonical
\* base (scrape_website) gives the same absolute URL.
C11_RecordUrlWasFetched ==
    [][(sw_pc = "gather" /\ sw_pc' \in {"batch", "finally"} /\ ~errored'
            /\ ~InUrl("poki.com", website)) =>
          \A k \in (Len(games) + 1)..Len(games') :
              games'[k].kind = "dict" => games'[k].game_url \in FetchedUrls]_vars

\* the link elements the batches so far have started a fetch for
FetchedLinks ==
    UNION {{batch_log[b].origins[t] : t \in 1..Len(batch_log[b].origins)} :
              b \in 1..Len(batch_log)}

RECURSIVE FetchTotal(_)
\* the number of fetches started by the first b batches
FetchTotal(b) ==
    IF b = 0 THEN 0 ELSE Len(batch_log[b].origins) + FetchTotal(b - 1)

\* no link element had two fetches: as many fetches as fetched elements
NoneFetchedTwice == FetchTotal(Len(batch_log)) = Cardinality(FetchedLinks)

\* a rendered-site call is in or past its batch loop
InBatchLoop ==
    /\ ~InUrl("poki.com", website)
    /\ sw_pc \in {"batch", "gather", "finally", "return"}

\* C12: on the rendered path, where the records are appended to the list
\* the batches are sliced from, no appended record is scheduled for a fetch
\* or passed to extract_game_info, no link element is fetched twice, and a
\* loop over n link elements that runs to its end has made ceil(n/10)
\* iterations and fetched every element with a non-empty href exactly once.
C12_GrowingListIsHarmless ==
    InBatchLoop =>
        /\ \A t \in 1..Len(tasks) :
              tasks[t].origin <= range_stop /\ games[tasks[t].origin].kind = "tag"
        /\ \A c \in calls : c.link <= range_stop /\ games[c.link].kind = "tag"
        /\ \A k \in 1..Len(games) : k > range_stop => games[k].kind = "dict"
        /\ NoneFetchedTwice
        /\ LoopCompleted =>
              /\ Len(batch_log) = (range_stop + chunk_size - 1) \div chunk_size
              /\ FetchedLinks = {k \in 1..range_stop : Truthy(games[k].href)}

\* C12's case: a loop over 11 link elements ended after two iterations, the
\* second one on a slice that held the last link element and records
C12_Witness ==
    /\ InBatchLoop /\ LoopCompleted
    /\ range_stop = 11
    /\ Len(games) > range_stop
    /\ Len(batch) > 1
    /\ batch[1].kind = "tag" /\ batch[2].kind = "dict"
    /\ Len(batch_log) = 2

\* ------------------------------------------------------------------------
\* Properties of extract_game_info (under SpecExtract)
\* ------------------------------------------------------------------------
Returned == extract_pc = "returned" /\ ~detail_html.is_none

\* C1: every record extract_game_info returns has a non-empty name,
\* whichever block produced it.
C1_RecordHasName ==
    (extract_pc = "returned" /\ game_info.kind = "dict") => Truthy(game_info.name)

\* no specialised block produced a record for the page
NoSpecializedRecord ==
    Specialized(detail_html.page, detail_url).status # "return"

\* C8: when no specialised block produced a record, a record is returned if
\* and only if the name of the generic chain is non-empty and so is the
\* description or the image of the generic chain; otherwise None is returned.
C8_GenericIff ==
    (Returned /\ NoSpecializedRecord) =>
        /\ game_info.kind \in {"dict", "None"}
        /\ game_info.kind = "dict" <=>
              /\ Truthy(GenericName(detail_html.page, detail_url))
              /\ \/ Truthy(GenericDescription(detail_html.page, detail_url))
                 \/ Truthy(GenericImage(detail_html.page, detail_url))
        /\ game_info.kind = "dict" =>
              game_info.name = GenericName(detail_html.page, detail_url)

\* C8's case: a Game Distribution page whose embedded JSON gives no record
\* and whose generic chain does
C8_Witness ==
    /\ Returned /\ NoSpecializedRecord
    /\ detail_html.page.next_data.kind = "dict"
    /\ game_info.kind = "dict"

IsGD(url) == ~InUrl("poki.com", url) /\ ~InUrl("gamepix.com", url)

\* some asset without a name is wider than every asset before it
WiderNamelessAsset(assets) ==
    \E q \in 1..Len(assets) :
        /\ ~assets[q].has_name
        /\ assets[q].width > 0
        /\ \A j \in 1..(q - 1) : assets[j].width < assets[q].width

\* the shapes the claim names: unparseable text, a game value that is not an
\* object, an asset entry without a name
MalformedAsClaimed(nd) ==
    \/ nd.kind \in {"nostring", "unparseable", "nondict"}
    \/ nd.kind = "dict" /\ nd.game.kind \in {"falsy", "nonobject"}
    \/ nd.kind = "dict" /\ nd.game.kind = "object"
         /\ \E q \in 1..Len(nd.game.assets) : ~nd.game.assets[q].has_name

\* the same with the asset entry restricted to one the scan reads the name of
MalformedAsAmended(nd) ==
    \/ nd.kind \in {"nostring", "unparseable", "nondict"}
    \/ nd.kind = "dict" /\ nd.game.kind \in {"falsy", "nonobject"}
    \/ nd.kind = "dict" /\ nd.game.kind = "object"
         /\ WiderNamelessAsset(nd.game.assets)

\* C10 as stated: on a Game Distribution page whose embedded JSON is
\* malformed or of an unexpected shape, extract_game_info does not raise and
\* returns exactly what the generic chain returns.
C10_MalformedIsGeneric ==
    (Returned /\ IsGD(detail_url) /\ MalformedAsClaimed(detail_html.page.next_data)) =>
        /\ game_info.kind # "raise"
        /\ game_info = Generic(detail_html.page, detail_url)

\* C10 amended: the same, for unparseable text, a game value that is not an
\* object, and an asset entry without a name that is wider than every asset
\* before it (a nameless asset that is not wider is skipped by the scan).
C10_RaisingIsGeneric ==
    (Returned /\ IsGD(detail_url) /\ MalformedAsAmended(detail_html.page.next_data)) =>
        /\ game_info.kind # "raise"
        /\ game_info = Generic(detail_html.page, detail_url)

\* C10's case: the JSON is malformed and the record comes from the generic chain
C10_Witness ==
    /\ Returned /\ IsGD(detail_url)
    /\ MalformedAsAmended(detail_html.page.next_data)
    /\ game_info.kind = "dict"

====
